---------------------------- MODULE Spec2Model ----------------------------
(***************************************************************************)
(* A model of the RAG website chatbot: the two breadth-first crawlers     *)
(* (AdvancedWebScraper.crawl_website, WebsiteIngestion.scrape_website),    *)
(* the fixed-size chunker, the link filter, the vector-store adapter and   *)
(* the answer pipeline.  Each part has its own specification over the      *)
(* shared variables; a part's specification keeps the other parts'         *)
(* variables at their initial values.                                      *)
(***************************************************************************)
EXTENDS Integers, Sequences, FiniteSets, TLC

VARIABLES
    \* ---- crawler (src/src/web_scraper.py, src/src/ingestion.py) ----
    variant,        \* "adv": AdvancedWebScraper, "ing": WebsiteIngestion
    site,           \* the web site: url -> set of (clean, valid) links its page holds
    max_depth,      \* AdvancedWebScraper.max_depth (constructor argument)
    max_pages,      \* argument of the running crawl call
    pages,          \* the list the call is building (one url per page)
    visited_urls,   \* the visited set
    urls_to_visit,  \* the frontier: sequence of [url, depth]
    scraped,        \* history: the scrape_page calls of the running invocation
    steps,          \* history: loop iterations of the running invocation
    calls,          \* history: crawl calls made on this instance so far
    pc,             \* "idle" (no call running) or "loop" (inside the while loop)
    \* ---- fixed-size chunker (src/src/ingestion.py chunk_content) ----
    content,        \* page['content']: a sequence of characters, 0 is whitespace
    chunk_size,     \* argument chunk_size
    overlap,        \* argument overlap
    ci,             \* the loop variable i of range(0, len(content), stride)
    chunks,         \* the list of chunks built so far
    discarded,      \* history: the windows the minimum-length test dropped
    cpc,            \* "idle", "loop", "done" (returned) or "raised"
    \* ---- link filter (src/src/web_scraper.py is_valid_url, extract_links) ----
    url,                  \* the url under test (an href, or a sitemap entry)
    base_url,             \* the url of the page / site it was found on
    domain_restrictions,  \* AdvancedWebScraper.domain_restrictions
    valid,                \* what is_valid_url returned, "unset" before the call
    links,                \* what extract_links returned
    upc,                  \* "idle", "checked", "extracted" or "extracted_ing"
    \* ---- adapter and pipeline (src/src/vector_store.py, src/src/rag_pipeline.py) ----
    vector_store,      \* VectorStore.vector_store: NoIndex (None) or an index
    disk_index,        \* the directory faiss_index: NoDir or the saved index
    disk_meta,         \* the file faiss_metadata.pkl: NoFile, corrupt or a docstore
    next_id,           \* identity of the next index object created
    rag_vector_store,  \* RAGPipeline.vector_store: "none" or "adapter"
    qa_chain,          \* RAGPipeline.qa_chain: NoIndex (None) or the index its retriever reads
    last,              \* the last operation called and how it ended
    \* ---- one fetched page (scrape_page and the append of the crawl loops) ----
    page_variant,      \* "adv" (AdvancedWebScraper) or "ing" (WebsiteIngestion)
    out_pages,         \* pages: for each page appended, the length of its extracted text
    page_last,         \* the last iteration: what was fetched and whether it was appended
    \* ---- sentence accumulation (src/src/web_scraper.py _chunk_by_headings) ----
    sem_content,       \* the page text, as runs of whitespace, terminators and other characters
    sem_chunks,        \* what _chunk_by_headings returned: for each chunk, its sentences' lengths
    sem_pc,            \* "idle" or "done"
    \* ---- chunking a batch of pages (chunk_content, chunk_content_by_structure) ----
    b_method,          \* "chunk_content" or "chunk_content_by_structure"
    b_pages,           \* the pages argument: [url, content], content as runs
    b_chunk_size,      \* the chunk_size argument
    b_overlap,         \* the overlap argument
    b_page,            \* number of pages the outer loop has finished
    b_chunks,          \* chunks: [page, chunk_id, chunk_type] of each chunk appended
    b_pc,              \* "loop", "done" (returned) or "raised"
    \* ---- the chat front end (src/chatbot.py) ----
    cb_pc,             \* "import" before the module body has run, "ready" after
    cb_start,          \* history: how the module-level try block ended
    cb_import_error,   \* _import_error: [none, text] (None, or the str of the exception)
    cb_db,             \* db: "none" or "index"
    cb_asked,          \* number of get_answer_safe calls made
    cb_answer,         \* the last get_answer_safe call: query, search outcome, result
    \* ---- requests and sleeps of a crawl (crawl_website, scrape_website) ----
    rl_variant,        \* "adv" (crawl_website) or "ing" (scrape_website)
    rl_events,         \* history: the "get" and "sleep" events of the running call, in order
    rl_iterations,     \* loop iterations done
    rl_requests        \* requests issued by the last iteration

crawlVars == <<variant, site, max_depth, max_pages, pages, visited_urls,
               urls_to_visit, scraped, steps, calls, pc>>

chunkVars == <<content, chunk_size, overlap, ci, chunks, discarded, cpc>>

urlVars == <<url, base_url, domain_restrictions, valid, links, upc>>

storeVars == <<vector_store, disk_index, disk_meta, next_id, rag_vector_store,
               qa_chain, last>>

pageVars == <<page_variant, out_pages, page_last>>

semVars == <<sem_content, sem_chunks, sem_pc>>

batchVars == <<b_method, b_pages, b_chunk_size, b_overlap, b_page, b_chunks, b_pc>>

chatVars == <<cb_pc, cb_start, cb_import_error, cb_db, cb_asked, cb_answer>>

rateVars == <<rl_variant, rl_events, rl_iterations, rl_requests>>

vars == <<crawlVars, chunkVars, urlVars, storeVars, pageVars, semVars, batchVars, chatVars, rateVars>>

\* What the steps of one part leave alone.
notCrawlVars == <<chunkVars, urlVars, storeVars, pageVars, semVars, batchVars, chatVars, rateVars>>
notChunkVars == <<crawlVars, urlVars, storeVars, pageVars, semVars, batchVars, chatVars, rateVars>>
notUrlVars == <<crawlVars, chunkVars, storeVars, pageVars, semVars, batchVars, chatVars, rateVars>>
notStoreVars == <<crawlVars, chunkVars, urlVars, pageVars, semVars, batchVars, chatVars, rateVars>>
notPageVars == <<crawlVars, chunkVars, urlVars, storeVars, semVars, batchVars, chatVars, rateVars>>
notSemVars == <<crawlVars, chunkVars, urlVars, storeVars, pageVars, batchVars, chatVars, rateVars>>
notBatchVars == <<crawlVars, chunkVars, urlVars, storeVars, pageVars, semVars, chatVars, rateVars>>
notChatVars == <<crawlVars, chunkVars, urlVars, storeVars, pageVars, semVars, batchVars, rateVars>>
notRateVars == <<crawlVars, chunkVars, urlVars, storeVars, pageVars, semVars, batchVars, chatVars>>

-----------------------------------------------------------------------------
(* Bounds of the model. *)

MaxPagesBound == 3      \* max_pages is drawn from 0..MaxPagesBound
MaxDepthBound == 2      \* max_depth is drawn from -1..MaxDepthBound
MaxCalls      == 2      \* crawl calls made on one scraper instance
MaxTextLen    == 55     \* page texts have 0..MaxTextLen characters
MaxPad        == 2      \* leading / trailing whitespace characters of a text
MaxChunkSize  == 53     \* largest chunk_size tried
MaxIndexes    == 2      \* index objects created in one run
MaxIndexLen   == 2      \* documents held by one index
MaxK          == 1      \* largest k of a similarity search
MaxSentences  == 2      \* pieces of a text given to _chunk_by_headings
MaxBatch      == 2      \* pages given to one chunking call
MaxAsked      == 2      \* get_answer_safe calls of one session
MaxIterations == 5      \* loop iterations of one crawl whose requests are followed

\* The URLs of the modelled site; the crawl starts at StartUrl.
Urls     == {"a", "b", "c"}
StartUrl == "a"

-----------------------------------------------------------------------------
(* Helpers. *)

\* All orders in which the elements of a finite set can be listed:
\* list(set(links)) iterates a Python set, whose order is not specified.
Orders(S) ==
    {s \in [1..Cardinality(S) -> S] : \A i, j \in 1..Cardinality(S) : s[i] = s[j] => i = j}

Range(s) == {s[i] : i \in 1..Len(s)}

\* The entries of frontier order `order` that pass `Keep`, each at depth d.
RECURSIVE Entries(_, _, _)
Entries(order, keep, d) ==
    IF order = <<>> THEN <<>>
    ELSE (IF Head(order) \in keep THEN <<[url |-> Head(order), depth |-> d]>> ELSE <<>>)
         \o Entries(Tail(order), keep, d)

-----------------------------------------------------------------------------
(* The crawlers.  One loop iteration is one step: the code is single-      *)
(* threaded and nothing else runs between the pop and the sleep.           *)

\* `while urls_to_visit and len(pages) < max_pages`
LoopCond_NoPageLimit == urls_to_visit # <<>>
LoopCond_OffByOne == urls_to_visit # <<>> /\ Len(pages) <= max_pages
LoopCond == urls_to_visit # <<>> /\ Len(pages) < max_pages

\* crawl_website: `if url in self.visited_urls or depth > self.max_depth: continue`
SkipAdv_NoVisitedCheck(u, depth) == depth > max_depth
SkipAdv_NoDepthCheck(u, depth) == u \in visited_urls
SkipAdv(u, depth) == u \in visited_urls \/ depth > max_depth

\* scrape_website: `if url in visited_urls: continue`
SkipIng_ChecksPages(u) == u \in Range(pages)
SkipIng(u) == u \in visited_urls

\* crawl_website: `if len(pages) < max_pages and depth < self.max_depth`,
\* evaluated after the page was appended (np is the new length of pages).
ExpandAdv(np, depth) == np < max_pages /\ depth < max_depth

\* scrape_website: `if len(pages) < max_pages`, after the append.
ExpandIng(np) == np < max_pages

\* extract_links(soup, url): the valid clean links of the page, as a list in
\* some order, self-links included.
extract_links(u) == Orders(site[u])

\* WebsiteIngestion._extract_links: as above, but `clean_url != base_url`.
_extract_links(u) == Orders(site[u] \ {u})

\* -- AdvancedWebScraper.crawl_website ------------------------------------

\* The call: pages = [], urls_to_visit = deque([(start_url, 0)]).  The
\* visited set is the instance's and is not reset.
crawl_website(mp) ==
    /\ UNCHANGED notCrawlVars
    /\ pc = "idle" /\ variant = "adv" /\ calls < MaxCalls
    /\ max_pages' = mp
    /\ pages' = <<>>
    /\ urls_to_visit' = <<[url |-> StartUrl, depth |-> 0]>>
    /\ scraped' = <<>> /\ steps' = 0
    /\ calls' = calls + 1
    /\ pc' = "loop"
    /\ UNCHANGED <<variant, site, max_depth, visited_urls>>

\* An iteration that pops an entry and skips it (`continue`).
crawl_skip ==
    /\ UNCHANGED notCrawlVars
    /\ pc = "loop" /\ variant = "adv" /\ LoopCond
    /\ SkipAdv(Head(urls_to_visit).url, Head(urls_to_visit).depth)
    /\ urls_to_visit' = Tail(urls_to_visit)
    /\ steps' = steps + 1
    /\ UNCHANGED <<variant, site, max_depth, max_pages, pages, visited_urls,
                   scraped, calls, pc>>

\* An iteration whose scrape_page returned None: the page is not appended,
\* no links are read, the loop goes on after the sleep.
crawl_scrape_failed_Abort ==
    /\ UNCHANGED notCrawlVars
    /\ pc = "loop" /\ variant = "adv" /\ LoopCond
    /\ ~SkipAdv(Head(urls_to_visit).url, Head(urls_to_visit).depth)
    /\ visited_urls' = visited_urls \cup {Head(urls_to_visit).url}
    /\ scraped' = Append(scraped, [url |-> Head(urls_to_visit).url,
                                   depth |-> Head(urls_to_visit).depth, ok |-> FALSE])
    /\ urls_to_visit' = Tail(urls_to_visit)
    /\ pc' = "idle"
    /\ steps' = steps + 1
    /\ UNCHANGED <<variant, site, max_depth, max_pages, pages, calls>>
crawl_scrape_failed ==
    /\ UNCHANGED notCrawlVars
    /\ pc = "loop" /\ variant = "adv" /\ LoopCond
    /\ ~SkipAdv(Head(urls_to_visit).url, Head(urls_to_visit).depth)
    /\ visited_urls' = visited_urls \cup {Head(urls_to_visit).url}
    /\ scraped' = Append(scraped, [url |-> Head(urls_to_visit).url,
                                   depth |-> Head(urls_to_visit).depth, ok |-> FALSE])
    /\ urls_to_visit' = Tail(urls_to_visit)
    /\ steps' = steps + 1
    /\ UNCHANGED <<variant, site, max_depth, max_pages, pages, calls, pc>>

\* The same iteration with the new links pushed at the front of the
\* frontier (a stack in place of the FIFO deque).
crawl_scrape_ok_Lifo ==
    /\ UNCHANGED notCrawlVars
    /\ pc = "loop" /\ variant = "adv" /\ LoopCond
    /\ LET e == Head(urls_to_visit)
           v == visited_urls \cup {e.url}
       IN /\ ~SkipAdv(e.url, e.depth)
          /\ visited_urls' = v
          /\ scraped' = Append(scraped, [url |-> e.url, depth |-> e.depth, ok |-> TRUE])
          /\ pages' = Append(pages, e.url)
          /\ IF ExpandAdv(Len(pages) + 1, e.depth)
                THEN \/ \E order \in extract_links(e.url) :
                          urls_to_visit' = Entries(order, Urls \ v, e.depth + 1)
                                           \o Tail(urls_to_visit)
                     \/ urls_to_visit' = Tail(urls_to_visit)
                ELSE urls_to_visit' = Tail(urls_to_visit)
    /\ steps' = steps + 1
    /\ UNCHANGED <<variant, site, max_depth, max_pages, calls, pc>>

\* An iteration whose scrape_page returned a page.  The page is appended;
\* when the limits allow, the url is fetched a second time and its links
\* that are not visited are pushed at depth + 1.  A failure of that second
\* fetch is caught and leaves the frontier as it is.
crawl_scrape_ok ==
    /\ UNCHANGED notCrawlVars
    /\ pc = "loop" /\ variant = "adv" /\ LoopCond
    /\ LET e == Head(urls_to_visit)
           v == visited_urls \cup {e.url}
       IN /\ ~SkipAdv(e.url, e.depth)
          /\ visited_urls' = v
          /\ scraped' = Append(scraped, [url |-> e.url, depth |-> e.depth, ok |-> TRUE])
          /\ pages' = Append(pages, e.url)
          /\ IF ExpandAdv(Len(pages) + 1, e.depth)
                THEN \/ \E order \in extract_links(e.url) :
                          urls_to_visit' = Tail(urls_to_visit)
                                           \o Entries(order, Urls \ v, e.depth + 1)
                     \/ urls_to_visit' = Tail(urls_to_visit)
                ELSE urls_to_visit' = Tail(urls_to_visit)
    /\ steps' = steps + 1
    /\ UNCHANGED <<variant, site, max_depth, max_pages, calls, pc>>

\* The loop condition is false: `return pages`.
crawl_return ==
    /\ UNCHANGED notCrawlVars
    /\ pc = "loop" /\ variant = "adv" /\ ~LoopCond
    /\ pc' = "idle"
    /\ UNCHANGED <<variant, site, max_depth, max_pages, pages, visited_urls,
                   urls_to_visit, scraped, steps, calls>>

\* -- WebsiteIngestion.scrape_website --------------------------------------

\* The call: pages = [], visited_urls = set(), urls_to_visit = [base_url].
\* The frontier holds urls only; the depth kept here is the number of link
\* hops, which the code does not read.
scrape_website(mp) ==
    /\ UNCHANGED notCrawlVars
    /\ pc = "idle" /\ variant = "ing" /\ calls < MaxCalls
    /\ max_pages' = mp
    /\ pages' = <<>>
    /\ visited_urls' = {}
    /\ urls_to_visit' = <<[url |-> StartUrl, depth |-> 0]>>
    /\ scraped' = <<>> /\ steps' = 0
    /\ calls' = calls + 1
    /\ pc' = "loop"
    /\ UNCHANGED <<variant, site, max_depth>>

scrape_skip ==
    /\ UNCHANGED notCrawlVars
    /\ pc = "loop" /\ variant = "ing" /\ LoopCond
    /\ SkipIng(Head(urls_to_visit).url)
    /\ urls_to_visit' = Tail(urls_to_visit)
    /\ steps' = steps + 1
    /\ UNCHANGED <<variant, site, max_depth, max_pages, pages, visited_urls,
                   scraped, calls, pc>>

\* scrape_page returned None (HTTP error, any other exception, or a page
\* with no text at all).
scrape_failed ==
    /\ UNCHANGED notCrawlVars
    /\ pc = "loop" /\ variant = "ing" /\ LoopCond
    /\ ~SkipIng(Head(urls_to_visit).url)
    /\ visited_urls' = visited_urls \cup {Head(urls_to_visit).url}
    /\ scraped' = Append(scraped, [url |-> Head(urls_to_visit).url,
                                   depth |-> Head(urls_to_visit).depth, ok |-> FALSE])
    /\ urls_to_visit' = Tail(urls_to_visit)
    /\ steps' = steps + 1
    /\ UNCHANGED <<variant, site, max_depth, max_pages, pages, calls, pc>>

\* scrape_page returned a page with its links; below the page limit every
\* link is pushed, visited or not (`urls_to_visit.extend(new_urls)`).
scrape_ok ==
    /\ UNCHANGED notCrawlVars
    /\ pc = "loop" /\ variant = "ing" /\ LoopCond
    /\ LET e == Head(urls_to_visit)
       IN /\ ~SkipIng(e.url)
          /\ visited_urls' = visited_urls \cup {e.url}
          /\ scraped' = Append(scraped, [url |-> e.url, depth |-> e.depth, ok |-> TRUE])
          /\ pages' = Append(pages, e.url)
          /\ IF ExpandIng(Len(pages) + 1)
                THEN \E order \in _extract_links(e.url) :
                        urls_to_visit' = Tail(urls_to_visit)
                                         \o Entries(order, Urls, e.depth + 1)
                ELSE urls_to_visit' = Tail(urls_to_visit)
    /\ steps' = steps + 1
    /\ UNCHANGED <<variant, site, max_depth, max_pages, calls, pc>>

scrape_return ==
    /\ UNCHANGED notCrawlVars
    /\ pc = "loop" /\ variant = "ing" /\ ~LoopCond
    /\ pc' = "idle"
    /\ UNCHANGED <<variant, site, max_depth, max_pages, pages, visited_urls,
                   urls_to_visit, scraped, steps, calls>>

\* -- the crawler's specification ------------------------------------------

\* After construction: AdvancedWebScraper(max_depth=...) has an empty visited
\* set; WebsiteIngestion() has no crawl state at all.  The site is any link
\* graph over Urls.
CrawlInit ==
    /\ variant \in {"adv", "ing"}
    /\ site \in [Urls -> SUBSET Urls]
    /\ max_depth \in (IF variant = "adv" THEN -1..MaxDepthBound ELSE {0})
    /\ max_pages = 0
    /\ pages = <<>>
    /\ visited_urls = {}
    /\ urls_to_visit = <<>>
    /\ scraped = <<>>
    /\ steps = 0
    /\ calls = 0
    /\ pc = "idle"

CrawlNext ==
    \/ \E mp \in 0..MaxPagesBound : crawl_website(mp)
    \/ crawl_skip
    \/ crawl_scrape_failed
    \/ crawl_scrape_ok
    \/ crawl_return
    \/ \E mp \in 0..MaxPagesBound : scrape_website(mp)
    \/ scrape_skip
    \/ scrape_failed
    \/ scrape_ok
    \/ scrape_return

-----------------------------------------------------------------------------
(* The fixed-size chunker, WebsiteIngestion.chunk_content, on one page.    *)
(* A text is a sequence of characters; 0 stands for a whitespace character *)
(* and the character at position k of the body is the number k, so that    *)
(* every slice of a text shows where it was cut from.                      *)

\* `len(chunk_text.strip()) > 50`
MinChunkLen == 50

Min(a, b) == IF a < b THEN a ELSE b

\* str.strip(): leading and trailing whitespace removed.
RECURSIVE LStrip(_)
LStrip(t) == IF t # <<>> /\ Head(t) = 0 THEN LStrip(Tail(t)) ELSE t
RECURSIVE RStrip(_)
RStrip(t) == IF t # <<>> /\ t[Len(t)] = 0 THEN RStrip(SubSeq(t, 1, Len(t) - 1)) ELSE t
Strip(t) == RStrip(LStrip(t))

\* content[i:j] for 0 <= i, i <= j (Python clips j to the length).
Slice(t, i, j) == SubSeq(t, i + 1, Min(j, Len(t)))

\* `chunk_size - overlap`, the step of the range.
Stride_NoOverlap == chunk_size
Stride == chunk_size - overlap

\* `chunk_text = content[i:i + chunk_size]`
Window_Inclusive(i) == Slice(content, i, i + chunk_size + 1)
Window(i) == Slice(content, i, i + chunk_size)

\* `if len(chunk_text.strip()) > 50`
KeepChunk(w) == Len(Strip(w)) > MinChunkLen

\* The call.  range(0, len(content), 0) raises ValueError; a negative step
\* gives an empty range.
chunk_content ==
    /\ UNCHANGED notChunkVars
    /\ cpc = "idle"
    /\ ci' = 0
    /\ chunks' = <<>>
    /\ discarded' = <<>>
    /\ cpc' = IF Stride = 0 THEN "raised" ELSE "loop"
    /\ UNCHANGED <<content, chunk_size, overlap>>

\* One iteration of the for loop.
chunk_step ==
    /\ UNCHANGED notChunkVars
    /\ cpc = "loop" /\ Stride > 0 /\ ci < Len(content)
    /\ IF KeepChunk(Window(ci))
         THEN /\ chunks' = Append(chunks, [content |-> Window(ci), index |-> ci \div Stride])
              /\ UNCHANGED discarded
         ELSE /\ discarded' = Append(discarded, Window(ci))
              /\ UNCHANGED chunks
    /\ ci' = ci + Stride
    /\ UNCHANGED <<content, chunk_size, overlap, cpc>>

\* The range is exhausted: `return chunks`.
chunk_return ==
    /\ UNCHANGED notChunkVars
    /\ cpc = "loop" /\ (Stride < 0 \/ ci >= Len(content))
    /\ cpc' = "done"
    /\ UNCHANGED <<content, chunk_size, overlap, ci, chunks, discarded>>

\* The texts tried: p whitespace characters, a body, q whitespace characters.
Text(p, n, q) == [k \in 1..n |-> IF k <= p \/ k > n - q THEN 0 ELSE k]

ChunkSizes == {2} \cup ((MinChunkLen + 1)..MaxChunkSize)
Overlaps(cs) == {0, 1, cs - 2, cs - 1, cs, cs + 1}

ChunkInit ==
    /\ \E n \in 0..MaxTextLen : \E p, q \in 0..MaxPad :
          p + q <= n /\ content = Text(p, n, q)
    /\ chunk_size \in ChunkSizes
    /\ overlap \in Overlaps(chunk_size)
    /\ ci = 0
    /\ chunks = <<>>
    /\ discarded = <<>>
    /\ cpc = "idle"

ChunkNext == chunk_content \/ chunk_step \/ chunk_return

-----------------------------------------------------------------------------
(* The link filter of AdvancedWebScraper.  A url is a sequence of          *)
(* one-character strings, so the regular expressions and urlparse work on  *)
(* the characters themselves.                                              *)

UpperCase == <<"A", "B", "C", "D", "E", "F", "G", "H", "I", "J", "K", "L", "M", "N", "O", "P", "Q", "R", "S", "T", "U", "V", "W", "X", "Y", "Z">>
LowerCase == <<"a", "b", "c", "d", "e", "f", "g", "h", "i", "j", "k", "l", "m", "n", "o", "p", "q", "r", "s", "t", "u", "v", "w", "x", "y", "z">>

\* re.IGNORECASE: both sides are compared in lower case.
Lower(c) ==
    IF \E i \in 1..Len(UpperCase) : UpperCase[i] = c
      THEN LowerCase[CHOOSE i \in 1..Len(UpperCase) : UpperCase[i] = c]
      ELSE c
LowerStr(s) == [i \in 1..Len(s) |-> Lower(s[i])]

StartsWithAt(s, i, w) == i + Len(w) - 1 <= Len(s) /\ SubSeq(s, i, i + Len(w) - 1) = w
Contains(s, w) == \E i \in 1..Len(s) : StartsWithAt(s, i, w)
EndsWith(s, w) == Len(s) >= Len(w) /\ SubSeq(s, Len(s) - Len(w) + 1, Len(s)) = w

\* The first position >= from of a character of cs in s, Len(s) + 1 if none.
IndexFrom(s, from, cs) ==
    IF \E i \in from..Len(s) : s[i] \in cs
      THEN CHOOSE i \in from..Len(s) : s[i] \in cs /\ \A j \in from..(i - 1) : s[j] \notin cs
      ELSE Len(s) + 1

\* r'.*\.(pdf|jpg|jpeg|png|gif|svg|css|js|ico)$'
AssetExts ==
    { <<"p", "d", "f">>,
      <<"j", "p", "g">>,
      <<"j", "p", "e", "g">>,
      <<"p", "n", "g">>,
      <<"g", "i", "f">>,
      <<"s", "v", "g">>,
      <<"c", "s", "s">>,
      <<"j", "s">>,
      <<"i", "c", "o">> }

\* r'.*/login.*', r'.*/register.*', ... r'.*/legal.*'
SkipWords ==
    { <<"l", "o", "g", "i", "n">>,
      <<"r", "e", "g", "i", "s", "t", "e", "r">>,
      <<"l", "o", "g", "o", "u", "t">>,
      <<"a", "d", "m", "i", "n">>,
      <<"a", "p", "i">>,
      <<"f", "e", "e", "d">>,
      <<"s", "i", "t", "e", "m", "a", "p">>,
      <<"s", "e", "a", "r", "c", "h">>,
      <<"c", "a", "r", "t">>,
      <<"c", "h", "e", "c", "k", "o", "u", "t">>,
      <<"a", "c", "c", "o", "u", "n", "t">>,
      <<"p", "r", "o", "f", "i", "l", "e">>,
      <<"s", "e", "t", "t", "i", "n", "g", "s">>,
      <<"h", "e", "l", "p">>,
      <<"f", "a", "q">>,
      <<"c", "o", "n", "t", "a", "c", "t">>,
      <<"p", "r", "i", "v", "a", "c", "y">>,
      <<"t", "e", "r", "m", "s">>,
      <<"c", "o", "o", "k", "i", "e">>,
      <<"l", "e", "g", "a", "l">> }

\* re.match(skip_patterns[0], url, re.IGNORECASE): the whole string ends in
\* a dot and one of the extensions.
MatchesAssetPattern(s) == \E e \in AssetExts : EndsWith(LowerStr(s), <<".">> \o e)

\* re.match of one of the other patterns: the string holds a slash directly
\* followed by one of the words.
MatchesSkipWord(s) == \E w \in SkipWords : Contains(LowerStr(s), <<"/">> \o w)

\* urlparse(url): the scheme ends at the first colon; after "//" the netloc
\* runs to the first of / ? #; the fragment starts at the first #, the
\* query at the first ? before it; the path is what lies between.
SchemeEnd(u) == IndexFrom(u, 1, {":"})
HasNetloc(u) ==
    /\ SchemeEnd(u) + 2 <= Len(u)
    /\ u[SchemeEnd(u) + 1] = "/" /\ u[SchemeEnd(u) + 2] = "/"
NetlocEnd(u) ==
    IF HasNetloc(u) THEN IndexFrom(u, SchemeEnd(u) + 3, {"/", "?", "#"}) - 1
    ELSE SchemeEnd(u)
Netloc(u) == IF HasNetloc(u) THEN SubSeq(u, SchemeEnd(u) + 3, NetlocEnd(u)) ELSE <<>>
PathEnd(u) == IndexFrom(u, NetlocEnd(u) + 1, {"?", "#"}) - 1
Path(u) == SubSeq(u, NetlocEnd(u) + 1, PathEnd(u))

\* re.sub(r'#.*$', '', u) followed by re.sub(r'\?.*$', '', u)
CleanUrl(u) == SubSeq(u, 1, IndexFrom(u, 1, {"?", "#"}) - 1)

\* AdvancedWebScraper.is_valid_url(url, base_domain)
is_valid_url(u, base) ==
    IF domain_restrictions /\ Netloc(u) # Netloc(base) THEN FALSE
    ELSE IF MatchesAssetPattern(u) \/ MatchesSkipWord(u) THEN FALSE
    ELSE TRUE

\* A direct call of is_valid_url(url, base_url), as scrape_sitemap makes for
\* every <loc> of a sitemap.
is_valid_url_call ==
    /\ UNCHANGED notUrlVars
    /\ upc = "idle"
    /\ valid' = is_valid_url(url, base_url)
    /\ upc' = "checked"
    /\ UNCHANGED <<url, base_url, domain_restrictions, links>>

\* extract_links(soup, base_url) on a page whose one anchor has href = url
\* (an absolute url, which urljoin returns as it is).
extract_links_call ==
    /\ UNCHANGED notUrlVars
    /\ upc = "idle"
    /\ links' = IF is_valid_url(CleanUrl(url), base_url) THEN {CleanUrl(url)} ELSE {}
    /\ upc' = "extracted"
    /\ UNCHANGED <<url, base_url, domain_restrictions, valid>>

\* urlparse(url).scheme: what precedes the first colon, in lower case.
Scheme(u) == LowerStr(SubSeq(u, 1, SchemeEnd(u) - 1))

\* A link kept with its fragment.
StripFragment_Keep(u) == u

\* full_url.split('#')[0]
StripFragment(u) == SubSeq(u, 1, IndexFrom(u, 1, {"#"}) - 1)

\* ['.pdf', '.jpg', '.png', '.gif', '.zip', '.css', '.js']
IngAssetExts ==
    { <<".", "p", "d", "f">>, <<".", "j", "p", "g">>, <<".", "p", "n", "g">>,
      <<".", "g", "i", "f">>, <<".", "z", "i", "p">>, <<".", "c", "s", "s">>,
      <<".", "j", "s">> }

HttpSchemes == { <<"h", "t", "t", "p">>, <<"h", "t", "t", "p", "s">> }

\* The condition of WebsiteIngestion._extract_links on full_url: same
\* netloc, scheme http or https, and the whole url (query and fragment
\* included) does not end in one of the extensions.
IngLinkOk_NoSchemeTest(u, base) ==
    /\ Netloc(u) = Netloc(base)
    /\ ~ \E e \in IngAssetExts : EndsWith(u, e)
IngLinkOk(u, base) ==
    /\ Netloc(u) = Netloc(base)
    /\ Scheme(u) \in HttpSchemes
    /\ ~ \E e \in IngAssetExts : EndsWith(u, e)

\* WebsiteIngestion._extract_links(soup, base_url) on a page whose one
\* anchor has href = url: the fragment is removed, the query is kept, and
\* a link equal to base_url is left out.
_extract_links_call ==
    /\ UNCHANGED notUrlVars
    /\ upc = "idle"
    /\ links' = IF IngLinkOk(url, base_url) /\ StripFragment(url) # base_url
                  THEN {StripFragment(url)} ELSE {}
    /\ upc' = "extracted_ing"
    /\ UNCHANGED <<url, base_url, domain_restrictions, valid>>

\* `scraper.domain_restrictions = False`
disable_domain_restrictions ==
    /\ UNCHANGED notUrlVars
    /\ upc = "idle" /\ domain_restrictions
    /\ domain_restrictions' = FALSE
    /\ UNCHANGED <<url, base_url, valid, links, upc>>

\* The urls tried: scheme://host path ext query fragment.
UrlHosts == { <<"a", ".", "i", "o">>, <<"b", ".", "i", "o">>, <<"a", "p", "i", ".", "i", "o">> }
UrlPaths == { <<>>, <<"/", "d", "o", "c", "s">>, <<"/", "l", "o", "g", "i", "n">>, <<"/", "A", "d", "m", "i", "n">>, <<"/", "d", "o", "c", "s", "/", "c", "a", "r", "t">> }
UrlExts == { <<>>, <<".", "p", "d", "f">>, <<".", "J", "S">>, <<".", "h", "t", "m", "l">> }
UrlQueries == { <<>>, <<"?", "q", "=", "1">> }
UrlFragments == { <<>>, <<"#", "t", "o", "p">> }
UrlPrefix == <<"h", "t", "t", "p", "s", ":", "/", "/">>
UrlPrefixes == { UrlPrefix, <<"h", "t", "t", "p", ":", "/", "/">>, <<"f", "t", "p", ":", "/", "/">> }
\* hrefs without a "//": mailto:x@a.io and javascript:v()
OpaqueUrls ==
    { <<"m", "a", "i", "l", "t", "o", ":", "x", "@", "a", ".", "i", "o">>,
      <<"j", "a", "v", "a", "s", "c", "r", "i", "p", "t", ":", "v", "(", ")">> }
TestUrls ==
    {s \o h \o p \o e \o q \o f :
        s \in UrlPrefixes, h \in UrlHosts, p \in UrlPaths, e \in UrlExts,
        q \in UrlQueries, f \in UrlFragments}
    \cup OpaqueUrls
BaseUrls == { UrlPrefix \o <<"a", ".", "i", "o">> \o <<"/", "d", "o", "c", "s">>, UrlPrefix \o <<"a", "p", "i", ".", "i", "o">> \o <<"/">> }

\* After construction domain_restrictions is True.
UrlInit ==
    /\ url \in TestUrls
    /\ base_url \in BaseUrls
    /\ domain_restrictions = TRUE
    /\ valid = "unset"
    /\ links = {}
    /\ upc = "idle"

UrlNext ==
    \/ is_valid_url_call
    \/ extract_links_call
    \/ _extract_links_call
    \/ disable_domain_restrictions

-----------------------------------------------------------------------------
(* The vector-store adapter (VectorStore) and the answer pipeline          *)
(* (RAGPipeline).  An index is [id, vectors, docstore]: id tells index     *)
(* objects apart, vectors is the sequence of embedded documents, docstore  *)
(* the documents the index maps its positions to.  Every call into the     *)
(* wrapped libraries may raise; f names the call that does.                *)

Min2(a, b) == IF a < b THEN a ELSE b

\* None in the place of an index, a missing directory, a missing file.
NoIndex == [id |-> 0, vectors |-> <<>>, docstore |-> <<>>]
NoDir == [exists |-> FALSE, vectors |-> <<>>, docstore |-> <<>>]
NoFile == [state |-> "absent", docstore |-> <<>>]

\* The document lists handed to create_vector_store / add_documents.
Batches == { <<1>>, <<2>>, <<1, 2>> }

\* FAISS.from_documents(documents, embeddings): a new index object.
NewIndex(docs) == [id |-> next_id, vectors |-> docs, docstore |-> docs]

\* What each operation does with an exception of a wrapped call.
create_except == "raised"        \* `except Exception: print(...); raise`
add_except    == "raised"        \* `except Exception: print(...); raise`
save_except   == "raised"        \* save_vector_store has no try
load_except_Reraise == "raised"
load_except   == "returned"      \* `except Exception: print(...); return None`
search_except == "returned"      \* `except Exception: print(...); return []`
stats_except  == "returned"      \* `return {"status": "error", ...}`
clear_except  == "returned"      \* `except Exception: print(...)`
qa_build_except == "raised"      \* create_qa_chain() is called before the try
qa_run_except == "returned"      \* `except Exception: return {"answer": "Error ...`

Result(op, outcome, value, n, failed) ==
    [op |-> op, outcome |-> outcome, value |-> value, n |-> n, libfail |-> failed]

\* A save that writes the metadata file only when there is none yet.
SaveEffect_StaleMeta(ix, f) ==
    /\ disk_index' = IF f = "save_local" THEN disk_index
                     ELSE [exists |-> TRUE, vectors |-> ix.vectors, docstore |-> ix.docstore]
    /\ disk_meta' = IF f = "save_local" \/ disk_meta.state = "ok" THEN disk_meta
                    ELSE IF f = "pickle" THEN [state |-> "corrupt", docstore |-> <<>>]
                    ELSE [state |-> "ok", docstore |-> ix.docstore]

\* save_vector_store(): save_local writes the index directory, then the
\* metadata file is opened for writing and the docstore pickled into it.
\* f = "save_local": nothing written; f = "pickle": the metadata file was
\* opened (truncated) and not completed.
SaveEffect(ix, f) ==
    /\ disk_index' = IF f = "save_local" THEN disk_index
                     ELSE [exists |-> TRUE, vectors |-> ix.vectors, docstore |-> ix.docstore]
    /\ disk_meta' = IF f = "save_local" THEN disk_meta
                    ELSE IF f = "pickle" THEN [state |-> "corrupt", docstore |-> <<>>]
                    ELSE [state |-> "ok", docstore |-> ix.docstore]

\* The body of create_vector_store(documents), reported under the name op
\* (add_documents calls it when no index is held).
CreateBody(op, docs, f) ==
    IF f = "from_documents"
      THEN /\ last' = Result(op, create_except, "exception", 0, TRUE)
           /\ UNCHANGED <<vector_store, disk_index, disk_meta, next_id>>
      ELSE /\ vector_store' = NewIndex(docs)
           /\ next_id' = next_id + 1
           /\ SaveEffect(NewIndex(docs), f)
           /\ last' = IF f = "none" THEN Result(op, "returned", "store", 0, FALSE)
                      ELSE Result(op, create_except, "exception", 0, TRUE)

create_vector_store(docs) ==
    /\ UNCHANGED notStoreVars
    /\ next_id <= MaxIndexes
    /\ \E f \in {"none", "from_documents", "save_local", "pickle"} :
          CreateBody("create_vector_store", docs, f)
    /\ UNCHANGED <<rag_vector_store, qa_chain>>

save_vector_store ==
    /\ UNCHANGED notStoreVars
    /\ IF vector_store = NoIndex
         THEN /\ last' = Result("save_vector_store", "returned", "None", 0, FALSE)
              /\ UNCHANGED <<disk_index, disk_meta>>
         ELSE \E f \in {"none", "save_local", "pickle"} :
                 /\ SaveEffect(vector_store, f)
                 /\ last' = IF f = "none"
                              THEN Result("save_vector_store", "returned", "None", 0, FALSE)
                              ELSE Result("save_vector_store", save_except, "exception", 0, TRUE)
    /\ UNCHANGED <<vector_store, next_id, rag_vector_store, qa_chain>>

\* load_vector_store(): both paths must exist; FAISS.load_local builds the
\* index object, then docstore and id map are replaced by the pickled ones.
load_vector_store ==
    /\ UNCHANGED notStoreVars
    /\ next_id <= MaxIndexes
    /\ IF disk_index.exists /\ disk_meta.state # "absent"
         THEN \E f \in {"none", "load_local", "pickle"} :
                 /\ f = "none" => disk_meta.state # "corrupt"
                 /\ IF f = "load_local"
                      THEN UNCHANGED <<vector_store, next_id>>
                      ELSE /\ vector_store' =
                                [id |-> next_id, vectors |-> disk_index.vectors,
                                 docstore |-> IF f = "none" THEN disk_meta.docstore
                                              ELSE disk_index.docstore]
                           /\ next_id' = next_id + 1
                 /\ last' = IF f = "none"
                              THEN Result("load_vector_store", "returned", "store", 0, FALSE)
                              ELSE Result("load_vector_store", load_except, "None", 0, TRUE)
         ELSE /\ last' = Result("load_vector_store", "returned", "None", 0, FALSE)
              /\ UNCHANGED <<vector_store, next_id>>
    /\ UNCHANGED <<disk_index, disk_meta, rag_vector_store, qa_chain>>

\* A search that calls the index without the `if not self.vector_store`
\* test and outside the try.
SearchBody_Unguarded(op, k) ==
    IF vector_store = NoIndex
      THEN last' = Result(op, "raised", "exception", 0, TRUE)
      ELSE last' = Result(op, "returned", "list", Min2(k, Len(vector_store.vectors)), FALSE)

\* similarity_search(query, k) and similarity_search_with_score(query, k).
SearchBody(op, k) ==
    IF vector_store = NoIndex
      THEN last' = Result(op, "returned", "list", 0, FALSE)
      ELSE \/ last' = Result(op, "returned", "list", Min2(k, Len(vector_store.vectors)), FALSE)
           \/ last' = Result(op, search_except, "list", 0, TRUE)

similarity_search(k) ==
    /\ UNCHANGED notStoreVars
    /\ SearchBody("similarity_search", k)
    /\ UNCHANGED <<vector_store, disk_index, disk_meta, next_id, rag_vector_store, qa_chain>>

similarity_search_with_score(k) ==
    /\ UNCHANGED notStoreVars
    /\ SearchBody("similarity_search_with_score", k)
    /\ UNCHANGED <<vector_store, disk_index, disk_meta, next_id, rag_vector_store, qa_chain>>

\* add_documents(documents): without an index it calls create_vector_store
\* outside any try; with one it adds in place (the same index object, which
\* a built qa_chain may hold too) and saves.
add_documents(docs) ==
    /\ UNCHANGED notStoreVars
    /\ IF vector_store = NoIndex
         THEN /\ next_id <= MaxIndexes
              /\ \E f \in {"none", "from_documents", "save_local", "pickle"} :
                    CreateBody("add_documents", docs, f)
              /\ UNCHANGED qa_chain
         ELSE /\ Len(vector_store.vectors) + Len(docs) <= MaxIndexLen
              /\ \E f \in {"none", "add_documents", "save_local", "pickle"} :
                    IF f = "add_documents"
                      THEN /\ last' = Result("add_documents", add_except, "exception", 0, TRUE)
                           /\ UNCHANGED <<vector_store, disk_index, disk_meta, qa_chain>>
                      ELSE LET ix == [vector_store EXCEPT
                                         !.vectors = @ \o docs, !.docstore = @ \o docs]
                           IN /\ vector_store' = ix
                              /\ qa_chain' = IF qa_chain # NoIndex /\ qa_chain.id = ix.id
                                               THEN ix ELSE qa_chain
                              /\ SaveEffect(ix, f)
                              /\ last' = IF f = "none"
                                           THEN Result("add_documents", "returned", "None", 0, FALSE)
                                           ELSE Result("add_documents", add_except, "exception", 0, TRUE)
              /\ UNCHANGED next_id
    /\ UNCHANGED rag_vector_store

get_stats ==
    /\ UNCHANGED notStoreVars
    /\ IF vector_store = NoIndex
         THEN last' = Result("get_stats", "returned", "not_initialized", 0, FALSE)
         ELSE \/ last' = Result("get_stats", "returned", "initialized",
                                Len(vector_store.docstore), FALSE)
              \/ last' = Result("get_stats", stats_except, "error", 0, TRUE)
    /\ UNCHANGED <<vector_store, disk_index, disk_meta, next_id, rag_vector_store, qa_chain>>

\* clear_store(): os.remove(index_path) comes first; index_path is the
\* directory save_local made, and os.remove of a directory raises OSError,
\* which the except clause prints.  Only without that directory are the
\* metadata file removed and the in-memory index dropped.
clear_store ==
    /\ UNCHANGED notStoreVars
    /\ IF disk_index.exists
         THEN /\ last' = Result("clear_store", clear_except, "None", 0, TRUE)
              /\ UNCHANGED <<vector_store, disk_meta>>
         ELSE \/ /\ disk_meta' = NoFile
                 /\ vector_store' = NoIndex
                 /\ last' = Result("clear_store", "returned", "None", 0, FALSE)
              \/ /\ disk_meta.state # "absent"
                 /\ last' = Result("clear_store", clear_except, "None", 0, TRUE)
                 /\ UNCHANGED <<vector_store, disk_meta>>
    /\ UNCHANGED <<disk_index, next_id, rag_vector_store, qa_chain>>

\* -- RAGPipeline ------------------------------------------------------------

\* answer_question(question) and chat(question): build the chain if there
\* is none (create_qa_chain raises ValueError without an index), then run
\* it inside the try.
AnswerBody(op) ==
    IF qa_chain = NoIndex /\ (rag_vector_store = "none" \/ vector_store = NoIndex)
      THEN /\ last' = Result(op, qa_build_except, "ValueError", 0, FALSE)
           /\ UNCHANGED qa_chain
      ELSE \E f \in {"none", "from_chain_type", "chain"} :
              /\ f = "from_chain_type" => qa_chain = NoIndex
              /\ IF f = "from_chain_type"
                   THEN /\ last' = Result(op, qa_build_except, "exception", 0, TRUE)
                        /\ UNCHANGED qa_chain
                   ELSE LET chain == IF qa_chain = NoIndex THEN vector_store ELSE qa_chain
                        IN /\ qa_chain' = chain
                           /\ last' = IF f = "none"
                                        THEN Result(op, "returned", "answer",
                                                    Min2(2, Len(chain.vectors)), FALSE)
                                        ELSE Result(op, qa_run_except, "error_answer", 0, TRUE)

answer_question ==
    /\ UNCHANGED notStoreVars
    /\ AnswerBody("answer_question")
    /\ UNCHANGED <<vector_store, disk_index, disk_meta, next_id, rag_vector_store>>

chat ==
    /\ UNCHANGED notStoreVars
    /\ AnswerBody("chat")
    /\ UNCHANGED <<vector_store, disk_index, disk_meta, next_id, rag_vector_store>>

\* update_vector_store(vector_store): the chains are reset.
update_vector_store(v) ==
    /\ UNCHANGED notStoreVars
    /\ rag_vector_store' = v
    /\ qa_chain' = NoIndex
    /\ last' = Result("update_vector_store", "returned", "None", 0, FALSE)
    /\ UNCHANGED <<vector_store, disk_index, disk_meta, next_id>>

\* After construction: VectorStore() holds no index, RAGPipeline(vector_store=v)
\* holds the adapter or None and no chain; nothing is on disk.
StoreInit ==
    /\ vector_store = NoIndex
    /\ disk_index = NoDir /\ disk_meta = NoFile
    /\ next_id = 1
    /\ rag_vector_store \in {"none", "adapter"}
    /\ qa_chain = NoIndex
    /\ last = Result("init", "returned", "None", 0, FALSE)

StoreNext ==
    \/ \E docs \in Batches : create_vector_store(docs)
    \/ save_vector_store
    \/ load_vector_store
    \/ \E k \in 1..MaxK : similarity_search(k)
    \/ \E k \in 1..MaxK : similarity_search_with_score(k)
    \/ \E docs \in Batches : add_documents(docs)
    \/ get_stats
    \/ clear_store
    \/ answer_question
    \/ chat
    \/ \E v \in {"none", "adapter"} : update_vector_store(v)

-----------------------------------------------------------------------------
(* One fetched page: scrape_page and the `if page_data: pages.append` of   *)
(* the crawl loops.  The extracted text of a page has pad whitespace       *)
(* characters around n other characters.                                    *)

\* `len(content.strip()) < 100`: below it WebsiteIngestion.scrape_page warns.
MinContentLen == 100

\* The stripped lengths tried: empty, one character, around the threshold.
PageLens == {0, 1, MinContentLen - 1, MinContentLen, MinContentLen + 1}

\* How the GET and the parse of a page can end.
Fetches == {"ok", "http_error", "exception"}

\* A scrape_page result: None, or a page whose extracted text had n
\* characters after stripping.
NonePage == [some |-> FALSE, extracted |-> 0]
Page(n) == [some |-> TRUE, extracted |-> n]

\* WebsiteIngestion.scrape_page: None on any exception; a text under the
\* threshold is warned about and rejected only if it is empty after strip.
scrape_page_Strict(fetch, pad, n) ==
    IF fetch # "ok" THEN NonePage
    ELSE IF pad + n = 0 \/ n < MinContentLen THEN NonePage
    ELSE Page(n)
scrape_page(fetch, pad, n) ==
    IF fetch # "ok" THEN NonePage
    ELSE IF pad + n = 0 \/ n < MinContentLen
           THEN (IF pad + n = 0 \/ n = 0 THEN NonePage ELSE Page(n))
    ELSE Page(n)

\* AdvancedWebScraper.scrape_page: None on any exception, otherwise a page;
\* the length of the text is not looked at.
crawl_scrape_page(fetch, pad, n) ==
    IF fetch # "ok" THEN NonePage ELSE Page(n)

\* `page_data = self.scrape_page(url); if page_data: pages.append(page_data)`
AppendIfPage(r, fetch, pad, n) ==
    /\ out_pages' = IF r.some THEN Append(out_pages, r.extracted) ELSE out_pages
    /\ page_last' = [called |-> TRUE, fetch |-> fetch, pad |-> pad, n |-> n,
                     appended |-> r.some]

scrape_iteration(fetch, pad, n) ==
    /\ UNCHANGED notPageVars
    /\ page_variant = "ing" /\ Len(out_pages) < MaxPagesBound
    /\ AppendIfPage(scrape_page(fetch, pad, n), fetch, pad, n)
    /\ UNCHANGED page_variant

crawl_iteration(fetch, pad, n) ==
    /\ UNCHANGED notPageVars
    /\ page_variant = "adv" /\ Len(out_pages) < MaxPagesBound
    /\ AppendIfPage(crawl_scrape_page(fetch, pad, n), fetch, pad, n)
    /\ UNCHANGED page_variant

PageInit ==
    /\ page_variant \in {"adv", "ing"}
    /\ out_pages = <<>>
    /\ page_last = [called |-> FALSE, fetch |-> "ok", pad |-> 0, n |-> 0, appended |-> FALSE]

PageNext ==
    \/ \E fetch \in Fetches, pad \in 0..MaxPad, n \in PageLens : scrape_iteration(fetch, pad, n)
    \/ \E fetch \in Fetches, pad \in 0..MaxPad, n \in PageLens : crawl_iteration(fetch, pad, n)

-----------------------------------------------------------------------------
(* Sentence accumulation: AdvancedWebScraper._chunk_by_headings.  A text   *)
(* is written as runs [k, n]: n characters of kind k, where kind 0 is       *)
(* whitespace, kind 1 a sentence terminator (. ! ?) and kind 2 any other    *)
(* character.  Chars expands the runs to the character sequence.            *)

\* `len(current_chunk) + len(sentence) < 1000`
SemanticBound == 1000

Ws == 0
Term == 1
Other == 2

RECURSIVE Chars(_)
Chars(runs) ==
    IF runs = <<>> THEN <<>>
    ELSE [i \in 1..Head(runs).n |-> Head(runs).k] \o Chars(Tail(runs))

\* re.split(r'[.!?]+', content), each piece stripped, empty pieces skipped:
\* the stripped lengths of the maximal terminator-free pieces that hold a
\* non-whitespace character, in order.  A piece starts at a and ends at
\* PieceEnd(t, a); its stripped text runs from its first to its last
\* character of kind Other.
PieceStarts(t) == {a \in 1..Len(t) : t[a] # Term /\ (a = 1 \/ t[a - 1] = Term)}
PieceEnd(t, a) == IndexFrom(t, a, {Term}) - 1
StrippedLen(t, a) ==
    LET b == PieceEnd(t, a)
        first == IndexFrom(t, a, {Other})
    IN IF first > b THEN 0
       ELSE (CHOOSE i \in first..b : t[i] = Other /\ \A j \in (i + 1)..b : t[j] # Other)
            - first + 1

RECURSIVE SentencesFrom(_, _)
SentencesFrom(t, starts) ==
    IF starts = {} THEN <<>>
    ELSE LET a == CHOOSE x \in starts : \A y \in starts : x <= y
         IN (IF StrippedLen(t, a) > 0 THEN <<StrippedLen(t, a)>> ELSE <<>>)
            \o SentencesFrom(t, starts \ {a})
Sentences(t) == SentencesFrom(t, PieceStarts(t))

RECURSIVE SumSeq(_)
SumSeq(s) == IF s = <<>> THEN 0 ELSE Head(s) + SumSeq(Tail(s))

\* len(current_chunk) when it holds the sentences cur: each is followed by ". ".
CurLen(cur) == SumSeq(cur) + 2 * Len(cur)

\* len(current_chunk.strip()): the trailing space goes.
SemChunkLen(c) == IF c = <<>> THEN 0 ELSE CurLen(c) - 1

\* The test that lets the next sentence join the current chunk.
Fits_Inclusive(cur, sentence) == CurLen(cur) + sentence <= SemanticBound
Fits(cur, sentence) == CurLen(cur) + sentence < SemanticBound

\* The loop over the sentences: cur is current_chunk, done the chunks
\* appended so far.
RECURSIVE Accumulate(_, _, _)
Accumulate(sents, cur, done) ==
    IF sents = <<>>
      THEN (IF cur # <<>> THEN Append(done, cur) ELSE done)
      ELSE IF Fits(cur, Head(sents))
             THEN Accumulate(Tail(sents), Append(cur, Head(sents)), done)
             ELSE Accumulate(Tail(sents), <<Head(sents)>>,
                             IF cur # <<>> THEN Append(done, cur) ELSE done)

_chunk_by_headings(runs) == Accumulate(Sentences(Chars(runs)), <<>>, <<>>)

_chunk_by_headings_call ==
    /\ UNCHANGED notSemVars
    /\ sem_pc = "idle"
    /\ sem_chunks' = _chunk_by_headings(sem_content)
    /\ sem_pc' = "done"
    /\ UNCHANGED sem_content

\* The texts tried: up to MaxSentences pieces, each with lead whitespace
\* characters, body other characters and term terminators.
SentLens == {1, 60, SemanticBound \div 2 - 2, SemanticBound \div 2 - 1, SemanticBound}
Piece(lead, body, term) ==
    (IF lead > 0 THEN <<[k |-> Ws, n |-> lead]>> ELSE <<>>)
    \o <<[k |-> Other, n |-> body]>>
    \o (IF term > 0 THEN <<[k |-> Term, n |-> term]>> ELSE <<>>)
Pieces == {Piece(lead, body, term) : lead \in 0..1, body \in SentLens, term \in 0..1}

RECURSIVE Flatten(_)
Flatten(ss) == IF ss = <<>> THEN <<>> ELSE Head(ss) \o Flatten(Tail(ss))

SemTexts == {Flatten(ps) : ps \in UNION {[1..m -> Pieces] : m \in 0..MaxSentences}}

SemInit ==
    /\ sem_content \in SemTexts
    /\ sem_chunks = <<>>
    /\ sem_pc = "idle"

SemNext == _chunk_by_headings_call

-----------------------------------------------------------------------------
(* Chunking a batch of pages: WebsiteIngestion.chunk_content and            *)
(* AdvancedWebScraper.chunk_content_by_structure.  One step is one          *)
(* iteration of the loop over the pages.                                    *)

\* str(n) for n >= 0
RECURSIVE Digits(_)
Digits(n) ==
    LET d == <<"0", "1", "2", "3", "4", "5", "6", "7", "8", "9">>
    IN IF n < 10 THEN <<d[n + 1]>> ELSE Digits(n \div 10) \o <<d[(n % 10) + 1]>>

\* f"{page['url']}_{n}"
ChunkId_UrlOnly(u, n) == u
ChunkId(u, n) == u \o <<"_">> \o Digits(n)

\* `for i in range(0, len(content), stride)` from i on, for stride > 0: the
\* windows that pass the minimum-length test, each with the id of its index.
RECURSIVE FixedFrom(_, _, _, _, _, _)
FixedFrom(t, u, k, i, size, stride) ==
    IF i >= Len(t) THEN <<>>
    ELSE (IF Len(Strip(Slice(t, i, i + size))) > MinChunkLen
            THEN <<[page |-> k, chunk_id |-> ChunkId(u, i \div stride),
                    chunk_type |-> "fixed_size"]>>
            ELSE <<>>)
         \o FixedFrom(t, u, k, i + stride, size, stride)

\* The fixed-size loop on page k; a negative step gives an empty range (a
\* step of 0 raises and is handled by the caller).
FixedChunks(k) ==
    IF b_chunk_size - b_overlap < 0 THEN <<>>
    ELSE FixedFrom(Chars(b_pages[k].content), b_pages[k].url, k, 0,
                   b_chunk_size, b_chunk_size - b_overlap)

\* The semantic branch on page k: each heading chunk longer than the
\* minimum is appended with the id f"{url}_{len(chunks)}", where chunks is
\* the list of all chunks appended so far, of this page and of the pages
\* before it (before is its length when the page starts).
RECURSIVE SemanticFrom(_, _, _, _)
SemanticFrom(hs, u, k, before) ==
    IF hs = <<>> THEN <<>>
    ELSE IF SemChunkLen(Head(hs)) > MinChunkLen
           THEN <<[page |-> k, chunk_id |-> ChunkId(u, before), chunk_type |-> "semantic"]>>
                \o SemanticFrom(Tail(hs), u, k, before + 1)
           ELSE SemanticFrom(Tail(hs), u, k, before)

\* What chunk_content_by_structure appends for page k when `before` chunks
\* are in the list: the semantic chunks if there is any heading chunk,
\* otherwise the fixed-size ones.
UsesFallback(k) == _chunk_by_headings(b_pages[k].content) = <<>>
StructureChunks(k, before) ==
    IF UsesFallback(k) THEN FixedChunks(k)
    ELSE SemanticFrom(_chunk_by_headings(b_pages[k].content), b_pages[k].url, k, before)

\* One iteration of chunk_content: range() with step 0 raises ValueError.
chunk_content_page ==
    /\ UNCHANGED notBatchVars
    /\ b_pc = "loop" /\ b_method = "chunk_content" /\ b_page < Len(b_pages)
    /\ IF b_chunk_size - b_overlap = 0
         THEN b_pc' = "raised" /\ UNCHANGED <<b_page, b_chunks>>
         ELSE /\ b_chunks' = b_chunks \o FixedChunks(b_page + 1)
              /\ b_page' = b_page + 1
              /\ UNCHANGED b_pc
    /\ UNCHANGED <<b_method, b_pages, b_chunk_size, b_overlap>>

\* One iteration of chunk_content_by_structure.
chunk_by_structure_page ==
    /\ UNCHANGED notBatchVars
    /\ b_pc = "loop" /\ b_method = "chunk_content_by_structure" /\ b_page < Len(b_pages)
    /\ IF UsesFallback(b_page + 1) /\ b_chunk_size - b_overlap = 0
         THEN b_pc' = "raised" /\ UNCHANGED <<b_page, b_chunks>>
         ELSE /\ b_chunks' = b_chunks \o StructureChunks(b_page + 1, Len(b_chunks))
              /\ b_page' = b_page + 1
              /\ UNCHANGED b_pc
    /\ UNCHANGED <<b_method, b_pages, b_chunk_size, b_overlap>>

\* `return chunks`
batch_return ==
    /\ UNCHANGED notBatchVars
    /\ b_pc = "loop" /\ b_page = Len(b_pages)
    /\ b_pc' = "done"
    /\ UNCHANGED <<b_method, b_pages, b_chunk_size, b_overlap, b_page, b_chunks>>

\* The urls, texts and (chunk_size, overlap) pairs tried.  The texts: a
\* sentence too short to keep, a sentence, a sentence followed by one of
\* 1000 characters, and 60 terminators (no sentence at all).
BatchUrls == { <<"u">>, <<"u", "_", "1">>, <<"v">> }
BatchTexts ==
    { Piece(0, 1, 1),
      Piece(0, 60, 1),
      Piece(0, 60, 1) \o Piece(1, SemanticBound, 1),
      <<[k |-> Term, n |-> 60]>> }
BatchConfigs == { <<1000, 200>>, <<52, 0>>, <<60, 60>>, <<52, 60>> }

BatchInit ==
    /\ b_method \in {"chunk_content", "chunk_content_by_structure"}
    /\ b_pages \in UNION {[1..m -> [url : BatchUrls, content : BatchTexts]] : m \in 0..MaxBatch}
    /\ \E c \in BatchConfigs : b_chunk_size = c[1] /\ b_overlap = c[2]
    /\ b_page = 0
    /\ b_chunks = <<>>
    /\ b_pc = "loop"

BatchNext ==
    \/ chunk_content_page
    \/ chunk_by_structure_page
    \/ batch_return

-----------------------------------------------------------------------------
(* The chat front end, src/chatbot.py: the module-level load of the index, *)
(* get_answer and get_answer_safe.  A returned string is written           *)
(* [kind, text]: which message it is and the text put into it.              *)

\* str(e) of the exceptions tried; an exception raised without a message
\* (MemoryError(), for one) has the empty string.
ErrorTexts == {"", "numpy"}

Queries == {"", "q1", "q2"}

\* The module body: the imports, the embeddings, then FAISS.load_local if
\* the directory faiss_index exists.  `outcome` says what happened: one of
\* the three steps raised, the directory was absent, or the index loaded.
module_load(outcome, exists, text) ==
    /\ UNCHANGED notChatVars
    /\ cb_pc = "import"
    /\ outcome = "load_failed" => exists
    /\ outcome = "loaded" => exists
    /\ outcome = "index_absent" => ~exists
    /\ outcome \in {"index_absent", "loaded"} => text = ""
    /\ cb_start' = [outcome |-> outcome, exists |-> exists, text |-> text]
    /\ cb_import_error' = IF outcome \in {"import_failed", "embeddings_failed", "load_failed"}
                            THEN [none |-> FALSE, text |-> text]
                            ELSE [none |-> TRUE, text |-> ""]
    /\ cb_db' = IF outcome = "loaded" THEN "index" ELSE "none"
    /\ cb_pc' = "ready"
    /\ UNCHANGED <<cb_asked, cb_answer>>

\* `if _import_error:` is the truth value of None or of a string.
Truthy(e) == ~e.none /\ e.text # ""

\* get_answer(query); search is what db.similarity_search does when it is
\* reached: "docs", "empty" or "raise", with text the exception's str.
get_answer(query, search, text) ==
    IF Truthy(cb_import_error)
      THEN [raised |-> FALSE, kind |-> "system_error", text |-> cb_import_error.text]
    ELSE IF cb_db = "none"
      THEN [raised |-> FALSE, kind |-> "unavailable", text |-> ""]
    ELSE IF search = "raise"
      THEN [raised |-> FALSE, kind |-> "search_error", text |-> text]
    ELSE IF search = "empty"
      THEN [raised |-> FALSE, kind |-> "not_found", text |-> ""]
    ELSE [raised |-> FALSE, kind |-> "page_content", text |-> ""]

\* get_answer_safe(query): an exception of get_answer becomes a string.
get_answer_safe(query, search, text) ==
    /\ UNCHANGED notChatVars
    /\ cb_pc = "ready" /\ cb_asked < MaxAsked
    /\ search # "raise" => text = ""
    /\ LET r == get_answer(query, search, text)
       IN cb_answer' = [called |-> TRUE, query |-> query,
                        search |-> IF Truthy(cb_import_error) \/ cb_db = "none"
                                     THEN "none" ELSE search,
                        raised |-> FALSE,
                        kind |-> IF r.raised THEN "unexpected" ELSE r.kind,
                        text |-> r.text]
    /\ cb_asked' = cb_asked + 1
    /\ UNCHANGED <<cb_pc, cb_start, cb_import_error, cb_db>>

ChatInit ==
    /\ cb_pc = "import"
    /\ cb_start = [outcome |-> "none", exists |-> FALSE, text |-> ""]
    /\ cb_import_error = [none |-> TRUE, text |-> ""]
    /\ cb_db = "none" /\ cb_asked = 0
    /\ cb_answer = [called |-> FALSE, query |-> "", search |-> "none", raised |-> FALSE,
                    kind |-> "none", text |-> ""]

ChatNext ==
    \/ \E outcome \in {"import_failed", "embeddings_failed", "index_absent",
                       "load_failed", "loaded"},
          exists \in BOOLEAN, text \in ErrorTexts : module_load(outcome, exists, text)
    \/ \E query \in Queries, search \in {"docs", "empty", "raise"}, text \in ErrorTexts :
          get_answer_safe(query, search, text)

-----------------------------------------------------------------------------
(* The HTTP requests and sleeps of the crawl loops.  One step is one loop  *)
(* iteration; what the iteration meets (an entry to skip, a page or None   *)
(* from scrape_page, the limits reached or not) is chosen freely, the      *)
(* crawlers above say which choices occur.                                  *)

\* One iteration of crawl_website: `continue` leaves before any request and
\* before the sleep; scrape_page issues session.get; when a page came back
\* and the limits allow, the url is requested again for its links; then
\* time.sleep(self.delay).
CrawlEvents(skip, page, expand) ==
    IF skip THEN <<>>
    ELSE <<"get">> \o (IF page /\ expand THEN <<"get">> ELSE <<>>) \o <<"sleep">>

\* One iteration of scrape_website: the links come with the page, so
\* scrape_page's request is the only one.
ScrapeEvents(skip, page, expand) ==
    IF skip THEN <<>> ELSE <<"get", "sleep">>

Gets(es) == Cardinality({i \in 1..Len(es) : es[i] = "get"})

crawl_website_iteration(skip, page, expand) ==
    /\ UNCHANGED notRateVars
    /\ rl_variant = "adv" /\ rl_iterations < MaxIterations
    /\ rl_events' = rl_events \o CrawlEvents(skip, page, expand)
    /\ rl_requests' = Gets(CrawlEvents(skip, page, expand))
    /\ rl_iterations' = rl_iterations + 1
    /\ UNCHANGED rl_variant

scrape_website_iteration(skip, page, expand) ==
    /\ UNCHANGED notRateVars
    /\ rl_variant = "ing" /\ rl_iterations < MaxIterations
    /\ rl_events' = rl_events \o ScrapeEvents(skip, page, expand)
    /\ rl_requests' = Gets(ScrapeEvents(skip, page, expand))
    /\ rl_iterations' = rl_iterations + 1
    /\ UNCHANGED rl_variant

RateInit ==
    /\ rl_variant \in {"adv", "ing"}
    /\ rl_events = <<>> /\ rl_iterations = 0 /\ rl_requests = 0

RateNext ==
    \/ \E skip, page, expand \in BOOLEAN : crawl_website_iteration(skip, page, expand)
    \/ \E skip, page, expand \in BOOLEAN : scrape_website_iteration(skip, page, expand)

-----------------------------------------------------------------------------
(* The specifications.  Each part runs with the other parts left in a      *)
(* fixed state.                                                            *)

CrawlOff ==
    /\ variant = "adv"
    /\ site = [u \in Urls |-> {}]
    /\ max_depth = 0 /\ max_pages = 0
    /\ pages = <<>> /\ visited_urls = {} /\ urls_to_visit = <<>>
    /\ scraped = <<>> /\ steps = 0 /\ calls = 0 /\ pc = "idle"

ChunkOff ==
    /\ content = <<>> /\ chunk_size = 1 /\ overlap = 0
    /\ ci = 0 /\ chunks = <<>> /\ discarded = <<>> /\ cpc = "idle"

UrlOff ==
    /\ url = <<>> /\ base_url = <<>> /\ domain_restrictions = TRUE
    /\ valid = "unset" /\ links = {} /\ upc = "idle"

StoreOff ==
    /\ vector_store = NoIndex /\ disk_index = NoDir /\ disk_meta = NoFile
    /\ next_id = 1 /\ rag_vector_store = "none" /\ qa_chain = NoIndex
    /\ last = [op |-> "init", outcome |-> "returned", value |-> "None", n |-> 0,
               libfail |-> FALSE]

PageOff ==
    /\ page_variant = "ing" /\ out_pages = <<>>
    /\ page_last = [called |-> FALSE, fetch |-> "ok", pad |-> 0, n |-> 0, appended |-> FALSE]

SemOff ==
    /\ sem_content = <<>> /\ sem_chunks = <<>> /\ sem_pc = "idle"

BatchOff ==
    /\ b_method = "chunk_content" /\ b_pages = <<>>
    /\ b_chunk_size = 1 /\ b_overlap = 0
    /\ b_page = 0 /\ b_chunks = <<>> /\ b_pc = "done"

ChatOff ==
    /\ cb_pc = "import"
    /\ cb_start = [outcome |-> "none", exists |-> FALSE, text |-> ""]
    /\ cb_import_error = [none |-> TRUE, text |-> ""]
    /\ cb_db = "none" /\ cb_asked = 0
    /\ cb_answer = [called |-> FALSE, query |-> "", search |-> "none", raised |-> FALSE,
                    kind |-> "none", text |-> ""]

RateOff ==
    /\ rl_variant = "adv" /\ rl_events = <<>> /\ rl_iterations = 0 /\ rl_requests = 0

Init == CrawlInit /\ ChunkOff /\ UrlOff /\ StoreOff /\ PageOff /\ SemOff /\ BatchOff /\ ChatOff /\ RateOff
Next == CrawlNext

Spec == Init /\ [][Next]_vars

\* Every started loop iteration completes: the loop is sequential code.
FairSpec == Spec /\ WF_vars(Next)

ChunkSpecInit == ChunkInit /\ CrawlOff /\ UrlOff /\ StoreOff /\ PageOff /\ SemOff /\ BatchOff /\ ChatOff /\ RateOff
ChunkSpec == ChunkSpecInit /\ [][ChunkNext]_vars

UrlSpecInit == UrlInit /\ CrawlOff /\ ChunkOff /\ StoreOff /\ PageOff /\ SemOff /\ BatchOff /\ ChatOff /\ RateOff
UrlSpec == UrlSpecInit /\ [][UrlNext]_vars

StoreSpecInit == StoreInit /\ CrawlOff /\ ChunkOff /\ UrlOff /\ PageOff /\ SemOff /\ BatchOff /\ ChatOff /\ RateOff
StoreSpec == StoreSpecInit /\ [][StoreNext]_vars

PageSpecInit == PageInit /\ CrawlOff /\ ChunkOff /\ UrlOff /\ StoreOff /\ SemOff /\ BatchOff /\ ChatOff /\ RateOff
PageSpec == PageSpecInit /\ [][PageNext]_vars

SemSpecInit == SemInit /\ CrawlOff /\ ChunkOff /\ UrlOff /\ StoreOff /\ PageOff /\ BatchOff /\ ChatOff /\ RateOff
SemSpec == SemSpecInit /\ [][SemNext]_vars

BatchSpecInit == BatchInit /\ CrawlOff /\ ChunkOff /\ UrlOff /\ StoreOff /\ PageOff /\ SemOff /\ ChatOff /\ RateOff
BatchSpec == BatchSpecInit /\ [][BatchNext]_vars

ChatSpecInit == ChatInit /\ CrawlOff /\ ChunkOff /\ UrlOff /\ StoreOff /\ PageOff /\ SemOff /\ BatchOff /\ RateOff
ChatSpec == ChatSpecInit /\ [][ChatNext]_vars

RateSpecInit == RateInit /\ CrawlOff /\ ChunkOff /\ UrlOff /\ StoreOff /\ PageOff /\ SemOff /\ BatchOff /\ ChatOff
RateSpec == RateSpecInit /\ [][RateNext]_vars

-----------------------------------------------------------------------------
(* Properties of the crawlers. *)

ScrapedUrls == {scraped[i].url : i \in 1..Len(scraped)}

\* C1: within one invocation of crawl_website or scrape_website no url is
\* passed to scrape_page more than once, whatever the link graph and
\* whichever fetches fail.
C1_NoUrlScrapedTwice ==
    \A i, j \in 1..Len(scraped) : scraped[i].url = scraped[j].url => i = j

\* C1 witness: scrape_website on a site where a and b link to each other and
\* both link to c; three urls were scraped, one of them failed, and queued
\* duplicates were skipped.
C1_Witness ==
    /\ variant = "ing" /\ pc = "idle"
    /\ "b" \in site["a"] /\ "a" \in site["b"]
    /\ "c" \in site["a"] /\ "c" \in site["b"]
    /\ Len(scraped) = 3
    /\ \E i \in 1..Len(scraped) : ~scraped[i].ok
    /\ steps > Len(scraped)

\* C2: for every max_pages >= 0, in every state of a crawl and at return,
\* the page list has at most max_pages entries.
C2_PageLimit == Len(pages) <= max_pages

\* C2 witness: a crawl that returned because the page list was full while
\* the frontier still held entries.
C2_Witness ==
    /\ pc = "idle" /\ calls > 0
    /\ max_pages >= 2 /\ Len(pages) = max_pages
    /\ urls_to_visit # <<>>

\* C3: crawl_website never scrapes a url at a depth greater than max_depth
\* (start url at depth 0, a link found on a page of depth d at depth d+1),
\* so every page of the output was scraped at a depth <= max_depth.
C3_DepthLimit ==
    variant = "adv" =>
        /\ \A i \in 1..Len(scraped) : scraped[i].depth <= max_depth
        /\ \A k \in 1..Len(pages) :
              \E i \in 1..Len(scraped) :
                  /\ scraped[i].url = pages[k] /\ scraped[i].ok
                  /\ scraped[i].depth <= max_depth

\* C3 witness: a crawl with max_depth = 1 returned below the page limit
\* although a page scraped at depth 1 links to a url never visited.
C3_Witness ==
    /\ variant = "adv" /\ pc = "idle" /\ max_depth = 1
    /\ Len(pages) < max_pages
    /\ \E i \in 1..Len(scraped) :
          /\ scraped[i].depth = 1 /\ scraped[i].ok
          /\ site[scraped[i].url] \ visited_urls # {}

\* C4: on every link graph over Urls both crawls terminate: the number of
\* loop iterations of one call is bounded, a started call returns, and the
\* loop is left as soon as the frontier is empty or the output holds
\* max_pages pages; cycles do not cause unbounded work.
C4_Terminates ==
    /\ [](steps <= 1 + Cardinality(Urls) * (Cardinality(Urls) - 1))
    /\ [][(pc = "loop" /\ (urls_to_visit = <<>> \/ Len(pages) >= max_pages))
             => pc' = "idle"]_vars
    /\ [](pc = "idle" /\ calls > 0
             => (urls_to_visit = <<>> \/ Len(pages) >= max_pages))
    /\ ((pc = "loop") ~> (pc = "idle"))

\* C4 witness: a call has returned on a site where two scraped pages link
\* to each other, after skipping a url it had already visited.
C4_Witness ==
    /\ pc = "idle" /\ calls > 0
    /\ \E u, v \in ScrapedUrls : u # v /\ v \in site[u] /\ u \in site[v]
    /\ steps > Len(scraped)

\* C5: when scrape_page fails for a url, the url adds no page, the crawl is
\* not aborted (the loop goes on with the rest of the frontier and returns
\* only when the frontier is empty or the page list is full), the url is in
\* the visited set and is not scraped again in that invocation.
C5_FailureSkipsUrl ==
    /\ [](\A i \in 1..Len(scraped) :
            ~scraped[i].ok =>
                /\ scraped[i].url \notin Range(pages)
                /\ scraped[i].url \in visited_urls
                /\ \A j \in 1..Len(scraped) :
                      scraped[j].url = scraped[i].url => j = i)
    /\ [][(Len(scraped') = Len(scraped) + 1 /\ ~scraped'[Len(scraped')].ok)
             => /\ pages' = pages
                /\ pc' = "loop"
                /\ urls_to_visit' = Tail(urls_to_visit)]_vars
    /\ [](pc = "idle" /\ calls > 0
             => (urls_to_visit = <<>> \/ Len(pages) >= max_pages))

\* C5 witness: crawl_website scraped a url that failed and went on to
\* scrape the next frontier entry with success.
C5_Witness ==
    /\ variant = "adv"
    /\ \E i \in 1..(Len(scraped) - 1) : ~scraped[i].ok /\ scraped[i + 1].ok

\* The urls held in the frontier.
FrontierUrls == {urls_to_visit[i].url : i \in 1..Len(urls_to_visit)}

\* C12 as stated: during a crawl no url of the frontier is in the visited
\* set (the visited set is a set, so it holds each url once).
C12_FrontierDisjoint ==
    pc = "loop" => FrontierUrls \cap visited_urls = {}

\* C12, amended: the visited set gains one url at a time, the url popped,
\* and only when it was not in it; an entry popped while its url is in the
\* visited set is dropped with no fetch and no page; crawl_website pushes
\* only urls that are not visited at the time of the push.
C12_VisitedEntriesSkipped ==
    /\ [][(pc = "loop" /\ visited_urls' # visited_urls) =>
             /\ Head(urls_to_visit).url \notin visited_urls
             /\ visited_urls' = visited_urls \cup {Head(urls_to_visit).url}]_vars
    /\ [][(pc = "loop" /\ steps' = steps + 1
              /\ Head(urls_to_visit).url \in visited_urls) =>
             /\ urls_to_visit' = Tail(urls_to_visit)
             /\ UNCHANGED <<pages, scraped, visited_urls>>]_vars
    /\ [][(pc = "loop" /\ steps' = steps + 1 /\ variant = "adv") =>
             \A i \in Len(urls_to_visit)..Len(urls_to_visit') :
                 urls_to_visit'[i].url \notin visited_urls']_vars

\* A crawl that popped and skipped an entry and still holds a visited url in
\* its frontier.
C12_Witness ==
    /\ pc = "loop"
    /\ steps > Len(scraped)
    /\ FrontierUrls \cap visited_urls # {}
    /\ Len(pages) > 0

\* C13: the visited set is scoped to one invocation: every call starts
\* with an empty visited set, so every call that may scrape at all
\* (max_pages >= 1, max_depth >= 0) scrapes the start url first, as a call on
\* a fresh instance does.
C13_VisitedScopedToCall ==
    /\ (pc = "loop" /\ steps = 0) => visited_urls = {}
    /\ (pc = "idle" /\ calls > 0 /\ max_pages >= 1 /\ max_depth >= 0) =>
          (scraped # <<>> /\ scraped[1].url = StartUrl)

-----------------------------------------------------------------------------
(* Properties of the fixed-size chunker. *)

\* t without its first n characters (t[n:]).
Drop(n, t) == IF n >= Len(t) THEN <<>> ELSE SubSeq(t, n + 1, Len(t))

\* The chunks in order, the first `ov` characters removed from each chunk
\* after the first, concatenated.
RECURSIVE ConcatTails(_, _)
ConcatTails(cks, ov) ==
    IF cks = <<>> THEN <<>>
    ELSE Drop(ov, Head(cks).content) \o ConcatTails(Tail(cks), ov)
Reconstruct(cks, ov) ==
    IF cks = <<>> THEN <<>> ELSE Head(cks).content \o ConcatTails(Tail(cks), ov)

ValidChunkArgs == chunk_size > overlap /\ overlap >= 0

\* C6 as stated: for chunk_size > overlap >= 0 the emitted chunks, overlaps
\* removed, concatenate to exactly the page text.
C6_ReconstructsAlways ==
    (cpc = "done" /\ ValidChunkArgs) => Reconstruct(chunks, overlap) = content

\* C6 as amended: for chunk_size > overlap >= 0 the emitted chunks, overlaps
\* removed, concatenate to exactly the page text if the text is empty or the
\* first window was emitted and every window dropped by the 50-character
\* minimum has at most `overlap` characters, and in no other case.
C6_ReconstructsUnlessDropped ==
    (cpc = "done" /\ ValidChunkArgs) =>
        (Reconstruct(chunks, overlap) = content
           <=> \/ content = <<>>
               \/ /\ chunks # <<>> /\ chunks[1].index = 0
                  /\ \A k \in 1..Len(discarded) : Len(discarded[k]) <= overlap)

\* C6 witness: a text cut with a positive overlap into at least two emitted
\* chunks, with short windows dropped at its end, is reconstructed.
C6_Witness ==
    /\ cpc = "done" /\ ValidChunkArgs /\ overlap > 0
    /\ Len(chunks) >= 2 /\ discarded # <<>>
    /\ Reconstruct(chunks, overlap) = content

\* C7: for chunk_size > overlap >= 0 every chunk the fixed-size chunker
\* emits has at most chunk_size characters.
C7_ChunkLength ==
    ValidChunkArgs => \A k \in 1..Len(chunks) : Len(chunks[k].content) <= chunk_size

\* C7 witness: a finished run whose first chunk has exactly chunk_size
\* characters and whose last chunk is shorter.
C7_Witness ==
    /\ cpc = "done" /\ ValidChunkArgs
    /\ Len(chunks) >= 2
    /\ Len(chunks[1].content) = chunk_size
    /\ Len(chunks[Len(chunks)].content) < chunk_size

-----------------------------------------------------------------------------
(* Properties of the link filter. *)

\* The url's path holds a blocklisted word after a slash, or ends in a
\* static-asset extension.
PathBlocked(u) == MatchesSkipWord(Path(u))
PathIsAsset(u) == MatchesAssetPattern(Path(u))
OtherHost(u) == domain_restrictions /\ Netloc(u) # Netloc(base_url)

\* C8: is_valid_url returns False for every url whose path matches a
\* blocklisted pattern, for every url whose path ends in a static-asset
\* extension and, with domain_restrictions on, for every url on another
\* host; and extract_links returns no such url.
C8_FilterRejects ==
    /\ (upc = "checked" /\ (PathBlocked(url) \/ PathIsAsset(url) \/ OtherHost(url)))
          => valid = FALSE
    /\ upc = "extracted"
          => \A l \in links : ~(PathBlocked(l) \/ PathIsAsset(l) \/ OtherHost(l))

-----------------------------------------------------------------------------
(* Properties of the answer pipeline and of the adapter. *)

AnswerOps == {"answer_question", "chat"}

AdapterOps == {"create_vector_store", "save_vector_store", "load_vector_store",
               "similarity_search", "similarity_search_with_score",
               "add_documents", "get_stats", "clear_store"}

\* C9: answer_question and chat never raise to their caller; whenever they
\* do not produce an answer (the chain fails, or the pipeline has no
\* initialized vector store) they return an error answer with no sources.
C9_NeverRaises ==
    last.op \in AnswerOps =>
        /\ last.outcome = "returned"
        /\ last.value # "answer" => (last.value = "error_answer" /\ last.n = 0)

\* C10 as stated: no operation of the adapter ends by raising.
C10_NoOperationRaises ==
    last.op \in AdapterOps => last.outcome = "returned"

\* The operations of the adapter that hand a library error on.
RaisingOps == {"create_vector_store", "save_vector_store", "add_documents"}

\* C10, amended: load_vector_store, the two searches, get_stats and
\* clear_store always return, a library error included (None, an empty
\* list, an error status); create_vector_store, save_vector_store and
\* add_documents raise exactly when a library call of theirs failed.
C10_OnlyWritersRaise ==
    last.op \in AdapterOps =>
        /\ last.op \notin RaisingOps => last.outcome = "returned"
        /\ last.op \in RaisingOps => (last.outcome = "raised" <=> last.libfail)
        /\ (last.libfail /\ last.op = "load_vector_store") => last.value = "None"
        /\ (last.libfail /\ last.op \in {"similarity_search", "similarity_search_with_score"})
              => (last.value = "list" /\ last.n = 0)
        /\ (last.libfail /\ last.op = "get_stats") => last.value = "error"

\* A load whose library call failed with both files on disk, and returned.
C10_Witness ==
    /\ last.op = "load_vector_store"
    /\ last.libfail
    /\ last.outcome = "returned"
    /\ disk_index.exists /\ disk_meta.state # "absent"

SearchOps == {"similarity_search", "similarity_search_with_score"}

\* C11: a search on an adapter that holds no index (never created, nothing
\* loaded, or cleared) returns an empty list and does not raise, whatever k.
C11_EmptySearch ==
    (last.op \in SearchOps /\ vector_store = NoIndex) =>
        /\ last.outcome = "returned"
        /\ last.value = "list"
        /\ last.n = 0
        /\ ~last.libfail

\* A search on an adapter whose index was created and then cleared.
C11_Witness ==
    /\ last.op \in SearchOps
    /\ vector_store = NoIndex
    /\ next_id > 1
    /\ last.outcome = "returned" /\ last.n = 0

-----------------------------------------------------------------------------
(* Properties of the page validation. *)

\* C14 as stated: every page of the output has an extracted text of at
\* least the threshold length; no near-empty page is in the output.
C14_NoNearEmptyPage ==
    \A i \in 1..Len(out_pages) : out_pages[i] >= MinContentLen

\* C14, amended: scrape_website appends a fetched page exactly when its
\* extracted text is not empty after stripping; crawl_website appends every
\* fetched page, whatever the length of its text.
C14_OnlyEmptyRejected ==
    /\ page_variant = "ing" => \A i \in 1..Len(out_pages) : out_pages[i] > 0
    /\ page_last.called =>
          /\ page_last.appended <=>
                (page_last.fetch = "ok" /\ (page_variant = "adv" \/ page_last.n > 0))
          /\ page_last.appended =>
                (out_pages # <<>> /\ out_pages[Len(out_pages)] = page_last.n)

\* scrape_website appended a page whose text is shorter than the threshold.
C14_Witness ==
    /\ page_variant = "ing"
    /\ page_last.called /\ page_last.appended
    /\ page_last.n > 0 /\ page_last.n < MinContentLen
    /\ out_pages[Len(out_pages)] = page_last.n

-----------------------------------------------------------------------------
(* Properties of link discovery. *)

HasChar(s, c) == \E i \in 1..Len(s) : s[i] = c

\* C15 as stated: every link either extractor returns has had fragment and
\* query removed.
C15_QueryAndFragmentStripped ==
    upc \in {"extracted", "extracted_ing"} =>
        \A l \in links : l = CleanUrl(url) /\ ~HasChar(l, "#") /\ ~HasChar(l, "?")

\* C15, amended: extract_links returns a link without fragment and query;
\* _extract_links returns it without the fragment and with its query.
C15_FragmentStripped ==
    /\ upc = "extracted" =>
          \A l \in links : l = CleanUrl(url) /\ ~HasChar(l, "#") /\ ~HasChar(l, "?")
    /\ upc = "extracted_ing" =>
          \A l \in links :
             /\ ~HasChar(l, "#")
             /\ \E f \in UrlFragments : l \o f = url
             /\ HasChar(l, "?") <=> HasChar(url, "?")

\* _extract_links returned a link of an href with query and fragment.
C15_Witness ==
    /\ upc = "extracted_ing"
    /\ HasChar(url, "?") /\ HasChar(url, "#")
    /\ \E l \in links : HasChar(l, "?") /\ ~HasChar(l, "#")


\* C16: every link either extractor returns has scheme http or https, with
\* domain_restrictions on or off.
C16_OnlyHttpLinks ==
    upc \in {"extracted", "extracted_ing"} =>
        \A l \in links : Scheme(l) \in HttpSchemes

-----------------------------------------------------------------------------
(* Properties of sentence accumulation. *)

\* C19 as stated: every chunk _chunk_by_headings returns is within the
\* bound of 1000 characters, a text with one long sentence included.
C19_ChunksUnderBound ==
    sem_pc = "done" =>
        \A i \in 1..Len(sem_chunks) : SemChunkLen(sem_chunks[i]) <= SemanticBound

\* C19, amended: a chunk of two or more sentences, and a chunk of one
\* sentence shorter than the bound, has at most 1000 characters; a sentence
\* of 1000 characters or more is a chunk of its own, one character longer
\* than the sentence.
C19_OnlyLongSentenceExceeds ==
    sem_pc = "done" =>
        \A i \in 1..Len(sem_chunks) :
            LET c == sem_chunks[i]
            IN /\ c # <<>>
               /\ (Len(c) > 1 \/ c[1] < SemanticBound) => SemChunkLen(c) <= SemanticBound
               /\ \A j \in 1..Len(c) : c[j] >= SemanticBound => Len(c) = 1
               /\ Len(c) = 1 => SemChunkLen(c) = c[1] + 1

\* A text with a short sentence and one of 1000 characters: the short one
\* is flushed and the long one is a chunk by itself, over the bound.
C19_Witness ==
    /\ sem_pc = "done"
    /\ Len(sem_chunks) = 2
    /\ SemChunkLen(sem_chunks[1]) <= SemanticBound
    /\ Len(sem_chunks[2]) = 1
    /\ SemChunkLen(sem_chunks[2]) = SemanticBound + 1

-----------------------------------------------------------------------------
(* Properties of the chunk ids. *)

\* The ids of a list of chunks, in order.
RECURSIVE IdsOf(_)
IdsOf(cs) == IF cs = <<>> THEN <<>> ELSE <<Head(cs).chunk_id>> \o IdsOf(Tail(cs))

\* The chunks of the output that come from page k, in order.
ChunksOfPage(k) == SelectSeq(b_chunks, LAMBDA c : c.page = k)

\* What the same call appends for page k when it is the only page.
ChunksAlone(k) ==
    IF b_method = "chunk_content" THEN FixedChunks(k) ELSE StructureChunks(k, 0)

\* C17: the chunk ids of a page are a function of its url and of the
\* chunk's position within the page: every finished page has in the batch
\* the ids it has when chunked alone.
C17_IdsIndependentOfBatch ==
    \A k \in 1..b_page : IdsOf(ChunksOfPage(k)) = IdsOf(ChunksAlone(k))

\* C18: in the output of one call over pages with pairwise distinct urls no
\* two chunks have the same chunk_id.
DistinctUrls ==
    \A i, j \in 1..Len(b_pages) : b_pages[i].url = b_pages[j].url => i = j

C18_ChunkIdsUnique ==
    DistinctUrls =>
        \A i, j \in 1..Len(b_chunks) : b_chunks[i].chunk_id = b_chunks[j].chunk_id => i = j

\* A finished chunk_content_by_structure call over distinct urls whose
\* output mixes semantic and fixed-size chunks and has two chunks of one page.
C18_Witness ==
    /\ b_pc = "done" /\ b_method = "chunk_content_by_structure" /\ DistinctUrls
    /\ \E i \in 1..Len(b_chunks) : b_chunks[i].chunk_type = "semantic"
    /\ \E i \in 1..Len(b_chunks) : b_chunks[i].chunk_type = "fixed_size"
    /\ \E i, j \in 1..Len(b_chunks) : i # j /\ b_chunks[i].page = b_chunks[j].page

-----------------------------------------------------------------------------
(* Properties of the chat front end. *)

StartFailed == cb_start.outcome \in {"import_failed", "embeddings_failed", "load_failed"}

\* C20: get_answer_safe returns a string and never raises: the
\* 'unavailable' message when the index directory was absent at startup,
\* the stored system-error text when the startup import or load failed, an
\* error string when the search fails.
C20_SafeAnswer ==
    cb_answer.called =>
        /\ ~cb_answer.raised
        /\ cb_answer.kind \in {"system_error", "unavailable", "search_error",
                               "not_found", "page_content", "unexpected"}
        /\ cb_start.outcome = "index_absent" => cb_answer.kind = "unavailable"
        /\ StartFailed =>
              (cb_answer.kind = "system_error" /\ cb_answer.text = cb_start.text)
        /\ cb_answer.search = "raise" => cb_answer.kind = "search_error"

-----------------------------------------------------------------------------
(* Persistence of the index. *)

\* The disk holds a completed save of the index ix.
SavedAs(ix) ==
    /\ disk_index = [exists |-> TRUE, vectors |-> ix.vectors, docstore |-> ix.docstore]
    /\ disk_meta = [state |-> "ok", docstore |-> ix.docstore]

SavingOps == {"create_vector_store", "add_documents"}

\* C21: persistence round-trips.  When create_vector_store or add_documents
\* has returned, the disk holds the in-memory index; and a load_vector_store
\* that meets no exception, made while the disk holds a completed save of an
\* index, returns a store with exactly the saved documents (vectors) and
\* the saved position-to-document mapping (docstore).
C21_SaveLoadRoundTrip ==
    /\ []((last.op \in SavingOps /\ last.outcome = "returned") =>
             (vector_store # NoIndex /\ SavedAs(vector_store)))
    /\ [][\A docs \in Batches \cup {d1 \o d2 : d1, d2 \in Batches} :
             (SavedAs([vectors |-> docs, docstore |-> docs])
                /\ last'.op = "load_vector_store" /\ ~last'.libfail)
             => /\ last'.value = "store"
                /\ vector_store' # NoIndex
                /\ vector_store'.vectors = docs
                /\ vector_store'.docstore = docs]_vars

\* A load has returned the two documents saved by a create_vector_store
\* and a following add_documents.
C21_Witness ==
    /\ last.op = "load_vector_store" /\ last.value = "store" /\ ~last.libfail
    /\ vector_store = [id |-> 2, vectors |-> <<1, 2>>, docstore |-> <<1, 2>>]
    /\ SavedAs(vector_store)

-----------------------------------------------------------------------------
(* The destructive clear. *)

\* C23: after clear_store has returned, whatever the state before it, the
\* adapter holds no index and neither the index directory nor the metadata
\* file remains on disk.
C23_ClearIsDestructive ==
    last.op = "clear_store" =>
        /\ last.outcome = "returned"
        /\ vector_store = NoIndex
        /\ disk_index = NoDir
        /\ disk_meta = NoFile

-----------------------------------------------------------------------------
(* The chain of the answer pipeline and the index of its adapter. *)

\* C25: whenever the pipeline holds a built qa_chain, the index its
\* retriever reads is the index the pipeline's adapter currently holds.
C25_ChainReadsCurrentIndex ==
    qa_chain # NoIndex =>
        /\ rag_vector_store = "adapter"
        /\ vector_store # NoIndex
        /\ qa_chain = vector_store

-----------------------------------------------------------------------------
(* Rate limiting. *)

\* C22: between any two consecutive HTTP requests of a crawl there is a
\* sleep, and no loop iteration of crawl_website or scrape_website issues
\* more than one request.
C22_SleepBetweenRequests ==
    /\ \A i \in 1..(Len(rl_events) - 1) : ~(rl_events[i] = "get" /\ rl_events[i + 1] = "get")
    /\ rl_requests <= 1

-----------------------------------------------------------------------------
(* Breadth-first order. *)

-----------------------------------------------------------------------------
(* The links WebsiteIngestion._extract_links returns. *)

\* C26: _extract_links returns no url on a host other than the page's and
\* no url whose path ends in one of the static-asset extensions, whether
\* the href carries a query or a fragment or not.
C26_NoAssetOrForeignLinks ==
    upc = "extracted_ing" =>
        \A l \in links :
            /\ Netloc(l) = Netloc(base_url)
            /\ ~ \E e \in IngAssetExts : EndsWith(Path(l), e)

-----------------------------------------------------------------------------
(* What the blocklist is matched against. *)

ApiHost == <<"a", "p", "i", ".", "i", "o">>

\* C27: the blocklist applies to the path only.  A url on the base url's
\* host whose path holds no blocklisted word and ends in no static-asset
\* extension is accepted by is_valid_url whatever the host's name, and
\* extract_links returns it (without query and fragment).
C27_BlocklistOnPathOnly ==
    (Netloc(url) = Netloc(base_url) /\ ~PathBlocked(url) /\ ~PathIsAsset(url)) =>
        /\ upc = "checked" => valid = TRUE
        /\ upc = "extracted" => links = {CleanUrl(url)}

-----------------------------------------------------------------------------
(* The stride of the fixed-size chunker. *)

\* Page k is cut by the fixed-size loop.
FixedSizePage(k) == b_method = "chunk_content" \/ UsesFallback(k)

\* C28: the fixed-size chunker requires a positive stride.  A call with
\* chunk_size - overlap <= 0, equal or greater overlap alike, whose pages
\* include a non-empty page cut by the fixed-size loop does not return a
\* chunk list.
C28_PositiveStrideRequired ==
    (b_chunk_size - b_overlap <= 0
       /\ \E k \in 1..Len(b_pages) : FixedSizePage(k) /\ Chars(b_pages[k].content) # <<>>)
    => b_pc # "done"

=============================================================================
